---- MODULE Spec2Model ----
(***************************************************************************)
(* A model of tools/update_readme.py of monlor/scripts: the metadata       *)
(* extractor (extract_script_metadata and its helpers), the interpreter    *)
(* detector (detect_executor) and the write/check driver (main).           *)
(* Text is modelled by TLA+ strings, taken apart with Len, SubSeq and \o,  *)
(* so that strip, lower, split, startswith, endswith, count and the in     *)
(* substring test are computed character by character as Python does.      *)
(***************************************************************************)
EXTENDS Integers, Sequences, FiniteSets, TLC

VARIABLES
    \* extract_script_metadata
    decodable,            \* FALSE: read_text raises UnicodeDecodeError
    lines,                \* path.read_text().splitlines()
    idx,                  \* position of the for loop over lines
    description,
    os_candidates,
    in_docstring,
    docstring_delimiter,
    pc,                   \* "scan" (in the loop), "post" (after it), "done" (returned)
    result,               \* the returned (description, supported_os) pair
    captured_at,          \* history: index of the line that captured the description, 0 if none
    os_decl_seen,         \* history: an OS-declaration comment was scanned
    stopped_at,           \* history: index of the line that broke out of the loop, 0 if none
    \* detect_executor
    exec_decodable,       \* FALSE: readline raises UnicodeDecodeError
    raw_first_line,       \* the file's first line, "" for an empty file
    first_line,
    suffix,
    interpreter,
    executor,
    epc,
    \* main
    tree,
    readme,
    output,
    last_op,              \* history: the last thing that happened
    last_write,           \* history: the document the last write-mode run wrote
    tree_changed          \* history: the tree changed since the last write-mode run

metaVars == <<decodable, lines, idx, description, os_candidates, in_docstring,
              docstring_delimiter, pc, result, captured_at, os_decl_seen, stopped_at>>
execVars == <<exec_decodable, raw_first_line, first_line, suffix, interpreter, executor, epc>>
mainVars == <<tree, readme, output, last_op, last_write, tree_changed>>
vars == <<metaVars, execVars, mainVars>>

----------------------------------------------------------------------------
(* Bounds of the model *)

MaxLines == 3

----------------------------------------------------------------------------
(* Python's str operations *)

Ch(s, i) == SubSeq(s, i, i)

Min(S) == CHOOSE m \in S : \A n \in S : m <= n

IsSpace(c) == c \in {" ", "\t"}

UpperAlpha == "ABCDEFGHIJKLMNOPQRSTUVWXYZ"
LowerAlpha == "abcdefghijklmnopqrstuvwxyz"

UpperSet == {Ch(UpperAlpha, i) : i \in 1..26}

LowerOf == [c \in UpperSet |-> Ch(LowerAlpha, CHOOSE i \in 1..26 : Ch(UpperAlpha, i) = c)]

LowerChar(c) == IF c \in UpperSet THEN LowerOf[c] ELSE c

RECURSIVE Lower(_)
Lower(s) == IF s = "" THEN "" ELSE LowerChar(Ch(s, 1)) \o Lower(SubSeq(s, 2, Len(s)))

StartsWith(s, p) == Len(s) >= Len(p) /\ SubSeq(s, 1, Len(p)) = p

EndsWith(s, p) == Len(s) >= Len(p) /\ SubSeq(s, Len(s) - Len(p) + 1, Len(s)) = p

\* s.lstrip(c) for a one-character c
LStripChar(s, c) ==
    LET keep == {i \in 1..Len(s) : Ch(s, i) # c}
    IN  IF keep = {} THEN "" ELSE SubSeq(s, Min(keep), Len(s))

\* s.strip()
Strip(s) ==
    LET keep == {i \in 1..Len(s) : ~IsSpace(Ch(s, i))}
    IN  IF keep = {} THEN ""
        ELSE SubSeq(s, Min(keep), CHOOSE m \in keep : \A n \in keep : n <= m)

\* index of the first occurrence of sub in s at or after position from, 0 if none
Find(s, sub, from) ==
    LET hits == {i \in from..(Len(s) - Len(sub) + 1) : SubSeq(s, i, i + Len(sub) - 1) = sub}
    IN  IF hits = {} THEN 0 ELSE Min(hits)

\* sub in s
Contains(s, sub) == Find(s, sub, 1) # 0

\* s.count(sub): non-overlapping occurrences, left to right
RECURSIVE CountFrom(_, _, _)
CountFrom(s, sub, from) ==
    LET i == Find(s, sub, from)
    IN  IF i = 0 THEN 0 ELSE 1 + CountFrom(s, sub, i + Len(sub))

Count(s, sub) == CountFrom(s, sub, 1)

\* s.split(sep) for a one-character sep: "" splits into [""]
RECURSIVE Split(_, _)
Split(s, sep) ==
    LET i == Find(s, sep, 1)
    IN  IF i = 0 THEN <<s>>
        ELSE <<SubSeq(s, 1, i - 1)>> \o Split(SubSeq(s, i + 1, Len(s)), sep)

\* s.split(): runs of whitespace separate, no empty parts
RECURSIVE SplitWS(_)
SplitWS(s) ==
    LET t == Strip(s)
        sp == {i \in 1..Len(t) : IsSpace(Ch(t, i))}
    IN  IF t = "" THEN <<>>
        ELSE IF sp = {} THEN <<t>>
        ELSE <<SubSeq(t, 1, Min(sp) - 1)>> \o SplitWS(SubSeq(t, Min(sp), Len(t)))

----------------------------------------------------------------------------
(* Module constants *)

DEFAULT_OS == <<"Linux">>

OS_ALIASES ==
    [k \in {"linux", "gnu/linux", "openwrt", "open-wrt", "lede", "mac", "macos",
            "osx", "darwin", "windows", "win"} |->
        CASE k \in {"linux", "gnu/linux"} -> "Linux"
          [] k \in {"openwrt", "open-wrt", "lede"} -> "OpenWrt"
          [] k \in {"mac", "macos", "osx", "darwin"} -> "macOS"
          [] k \in {"windows", "win"} -> "Windows"]

OsPrefixes == <<"supports:", "supported os:", "os:", "platform:", "platforms:">>

NoDescription == "No description available"
DecodeErrorDescription == "Unable to decode file for description"

----------------------------------------------------------------------------
(* Helpers of extract_script_metadata *)

RECURSIVE DedupeFrom(_, _)
DedupeFrom(items, seen) ==
    IF items = <<>> THEN <<>>
    ELSE IF Head(items) = "" \/ Head(items) \in seen THEN DedupeFrom(Tail(items), seen)
    ELSE <<Head(items)>> \o DedupeFrom(Tail(items), seen \cup {Head(items)})

_dedupe_keep_repeats(items) == SelectSeq(items, LAMBDA item : item # "")

_dedupe_preserve_order(items) == DedupeFrom(items, {})

_normalize_os_label(label) ==
    LET cleaned == Strip(label)
        key == Lower(cleaned)
    IN  IF cleaned = "" THEN ""
        ELSE IF key \in DOMAIN OS_ALIASES THEN OS_ALIASES[key] ELSE cleaned

----------------------------------------------------------------------------
(* Input files of the metadata extractor *)

InputLines ==
    { "   ",
      "  # Sync router IP list ",
      "// Second note",
      "## Supports: Linux, linux, OpenWrt",
      "# Supports:",
      "// OS: win, FreeBSD ,",
      "\"\"\"Restart service.\"\"\"",
      "\"\"\"One\"\"\" # Supports: mac",
      "\"\"\"\"\"\"",
      "'''",
      "'''Doc start",
      "body text",
      "end of doc'''",
      "#!x'''" }

\* The scenarios of the specification's testable properties, longer than MaxLines
ScenarioFiles ==
    { <<"# Sync router IP list", "", "# Supports: Linux, OpenWrt", "set -e",
        "# Supports: Windows">>,
      <<"#!/usr/bin/env python3", "\"\"\"Restart service.\"\"\"", "",
        "# Supports: OpenWrt", "import os">>,
      <<"'''", "Doc start", "#!x'''", "end of doc'''", "# os: darwin", "body text",
        "// Second note">> }

Files == UNION {[1..n -> InputLines] : n \in 0..MaxLines} \cup ScenarioFiles

----------------------------------------------------------------------------
(* extract_script_metadata: the per-line computations *)

Line == Strip(lines[idx])

IsComment(line) == StartsWith(line, "#") \/ StartsWith(line, "//")

CommentText(line) ==
    IF StartsWith(line, "#") THEN Strip(LStripChar(line, "#"))
    ELSE Strip(LStripChar(line, "/"))

\* position in OsPrefixes of the first prefix lower_comment starts with, 0 if none
MatchedPrefix(comment_text) ==
    LET lower_comment == Lower(comment_text)
        hits == {i \in 1..Len(OsPrefixes) : StartsWith(lower_comment, OsPrefixes[i])}
    IN  IF hits = {} THEN 0 ELSE Min(hits)

RECURSIVE NormalizedParts(_)
NormalizedParts(parts) ==
    IF parts = <<>> THEN <<>>
    ELSE LET normalized == _normalize_os_label(Head(parts))
         IN  (IF normalized # "" THEN <<normalized>> ELSE <<>>)
             \o NormalizedParts(Tail(parts))

\* the labels an OS-declaration comment appends to os_candidates
OsLabels(comment_text) ==
    LET prefix == OsPrefixes[MatchedPrefix(comment_text)]
        os_string == Strip(SubSeq(comment_text, Len(prefix) + 1, Len(comment_text)))
    IN  NormalizedParts(Split(os_string, ","))

\* the description after a comment line
CommentDescription_overwrite(desc, comment_text, matched_os) ==
    IF ~matched_os /\ comment_text # "" THEN comment_text ELSE desc

CommentDescription_fallback(desc, comment_text, matched_os) ==
    IF (~matched_os \/ OsLabels(comment_text) = <<>>) /\ comment_text # "" /\ desc = ""
    THEN comment_text ELSE desc

CommentDescription(desc, comment_text, matched_os) ==
    IF ~matched_os /\ comment_text # "" /\ desc = "" THEN comment_text ELSE desc

IsDocstringOpening(line) == StartsWith(line, "\"\"\"") \/ StartsWith(line, "'''")

\* line[: -len(delimiter)].strip()
BeforeDelimiter(line, delimiter) == Strip(SubSeq(line, 1, Len(line) - Len(delimiter)))

Remainder(line) == Strip(SubSeq(line, 4, Len(line)))

\* the docstring opens and closes on this line, with the delimiter last
ClosedAtEnd(line) ==
    EndsWith(Remainder(line), SubSeq(line, 1, 3)) /\ Len(Remainder(line)) > 3

\* the description after a docstring-opening line
OpeningDescription(desc, line) ==
    LET delimiter == SubSeq(line, 1, 3)
        remainder == Remainder(line)
        content == BeforeDelimiter(remainder, delimiter)
    IN  IF ClosedAtEnd(line)
        THEN (IF content # "" /\ desc = "" THEN content ELSE desc)
        ELSE (IF remainder # "" /\ desc = "" THEN remainder ELSE desc)

\* the docstring-opening line breaks out of the loop
OpeningBreaks(line) == ClosedAtEnd(line) \/ Count(line, SubSeq(line, 1, 3)) >= 2

----------------------------------------------------------------------------
(* extract_script_metadata: the state machine *)

\* detect_executor is not running
ExecIdle ==
    /\ exec_decodable = TRUE /\ raw_first_line = "" /\ first_line = "" /\ suffix = ""
    /\ interpreter = "" /\ executor = "" /\ epc = "idle"

\* main is not running
MainIdle ==
    /\ tree = <<>> /\ readme = <<>> /\ output = "" /\ last_op = "idle"
    /\ last_write = <<>> /\ tree_changed = FALSE

Init ==
    /\ decodable \in BOOLEAN
    /\ lines \in (IF decodable THEN Files ELSE {<<>>})
    /\ idx = 1
    /\ description = ""
    /\ os_candidates = <<>>
    /\ in_docstring = FALSE
    /\ docstring_delimiter = ""
    /\ pc = "read"
    /\ result = <<>>
    /\ captured_at = 0
    /\ os_decl_seen = FALSE
    /\ stopped_at = 0
    /\ ExecIdle
    /\ MainIdle

Scanning == pc = "scan" /\ idx <= Len(lines)

\* the history of which line captured the description
NoteCapture == captured_at' = IF description = "" /\ description' # "" THEN idx ELSE captured_at

ReadText ==
    /\ pc = "read" /\ decodable
    /\ pc' = "scan"
    /\ UNCHANGED <<decodable, lines, idx, description, os_candidates, in_docstring,
                   docstring_delimiter, result, captured_at, os_decl_seen, stopped_at>>
    /\ UNCHANGED <<execVars, mainVars>>

DecodeError ==
    /\ pc = "read" /\ ~decodable
    /\ result' = <<DecodeErrorDescription, DEFAULT_OS>>
    /\ pc' = "done"
    /\ UNCHANGED <<decodable, lines, idx, description, os_candidates, in_docstring,
                   docstring_delimiter, captured_at, os_decl_seen, stopped_at>>
    /\ UNCHANGED <<execVars, mainVars>>

SkipBlank ==
    /\ Scanning /\ Line = ""
    /\ idx' = idx + 1
    /\ UNCHANGED <<decodable, lines, description, os_candidates, in_docstring,
                   docstring_delimiter, pc, result, captured_at, os_decl_seen, stopped_at>>
    /\ UNCHANGED <<execVars, mainVars>>

SkipShebang ==
    /\ Scanning /\ Line # "" /\ StartsWith(Line, "#!")
    /\ idx' = idx + 1
    /\ UNCHANGED <<decodable, lines, description, os_candidates, in_docstring,
                   docstring_delimiter, pc, result, captured_at, os_decl_seen, stopped_at>>
    /\ UNCHANGED <<execVars, mainVars>>

DocstringClose ==
    /\ Scanning /\ Line # "" /\ ~StartsWith(Line, "#!")
    /\ in_docstring /\ EndsWith(Line, docstring_delimiter)
    /\ description' = IF BeforeDelimiter(Line, docstring_delimiter) # "" /\ description = ""
                      THEN BeforeDelimiter(Line, docstring_delimiter) ELSE description
    /\ in_docstring' = FALSE
    /\ idx' = idx + 1
    /\ NoteCapture
    /\ UNCHANGED <<decodable, lines, os_candidates, docstring_delimiter, pc, result,
                   os_decl_seen, stopped_at>>
    /\ UNCHANGED <<execVars, mainVars>>

DocstringBody ==
    /\ Scanning /\ Line # "" /\ ~StartsWith(Line, "#!")
    /\ in_docstring /\ ~EndsWith(Line, docstring_delimiter)
    /\ description' = IF description = "" THEN Line ELSE description
    /\ idx' = idx + 1
    /\ NoteCapture
    /\ UNCHANGED <<decodable, lines, os_candidates, in_docstring, docstring_delimiter, pc,
                   result, os_decl_seen, stopped_at>>
    /\ UNCHANGED <<execVars, mainVars>>

CommentLine ==
    /\ Scanning /\ Line # "" /\ ~StartsWith(Line, "#!")
    /\ ~in_docstring /\ IsComment(Line)
    /\ LET comment_text == CommentText(Line)
           matched_os == MatchedPrefix(comment_text) # 0
       IN  /\ os_candidates' = IF matched_os THEN os_candidates \o OsLabels(comment_text)
                               ELSE os_candidates
           /\ os_decl_seen' = (os_decl_seen \/ matched_os)
           /\ description' = CommentDescription(description, comment_text, matched_os)
    /\ idx' = idx + 1
    /\ NoteCapture
    /\ UNCHANGED <<decodable, lines, in_docstring, docstring_delimiter, pc, result,
                   stopped_at>>
    /\ UNCHANGED <<execVars, mainVars>>

DocstringOpen ==
    /\ Scanning /\ Line # "" /\ ~StartsWith(Line, "#!")
    /\ ~in_docstring /\ ~IsComment(Line) /\ IsDocstringOpening(Line)
    /\ docstring_delimiter' = SubSeq(Line, 1, 3)
    /\ description' = OpeningDescription(description, Line)
    /\ IF OpeningBreaks(Line)
       THEN pc' = "post" /\ stopped_at' = idx /\ UNCHANGED <<idx, in_docstring>>
       ELSE in_docstring' = TRUE /\ idx' = idx + 1 /\ UNCHANGED <<pc, stopped_at>>
    /\ NoteCapture
    /\ UNCHANGED <<decodable, lines, os_candidates, result, os_decl_seen>>
    /\ UNCHANGED <<execVars, mainVars>>

CodeLine_continue ==
    /\ Scanning /\ Line # "" /\ ~StartsWith(Line, "#!")
    /\ ~in_docstring /\ ~IsComment(Line) /\ ~IsDocstringOpening(Line)
    /\ idx' = idx + 1
    /\ UNCHANGED <<decodable, lines, description, os_candidates, in_docstring,
                   docstring_delimiter, pc, result, captured_at, os_decl_seen, stopped_at>>
    /\ UNCHANGED <<execVars, mainVars>>

CodeLine ==
    /\ Scanning /\ Line # "" /\ ~StartsWith(Line, "#!")
    /\ ~in_docstring /\ ~IsComment(Line) /\ ~IsDocstringOpening(Line)
    /\ pc' = "post"
    /\ stopped_at' = idx
    /\ UNCHANGED <<decodable, lines, idx, description, os_candidates, in_docstring,
                   docstring_delimiter, result, captured_at, os_decl_seen>>
    /\ UNCHANGED <<execVars, mainVars>>

\* lines 243-250: the defaults, the de-duplication and the return
Finish ==
    /\ pc = "post" \/ (pc = "scan" /\ idx > Len(lines))
    /\ description' = IF description = "" THEN NoDescription ELSE description
    /\ result' = <<description',
                   IF _dedupe_preserve_order(os_candidates) = <<>> THEN DEFAULT_OS
                   ELSE _dedupe_preserve_order(os_candidates)>>
    /\ pc' = "done"
    /\ UNCHANGED <<decodable, lines, idx, os_candidates, in_docstring, docstring_delimiter,
                   captured_at, os_decl_seen, stopped_at>>
    /\ UNCHANGED <<execVars, mainVars>>

Next ==
    \/ ReadText
    \/ DecodeError
    \/ SkipBlank
    \/ SkipShebang
    \/ DocstringClose
    \/ DocstringBody
    \/ CommentLine
    \/ DocstringOpen
    \/ CodeLine
    \/ Finish

Spec == Init /\ [][Next]_vars

----------------------------------------------------------------------------
(* Properties of extract_script_metadata *)

NoDuplicates(seq) == \A i, j \in 1..Len(seq) : seq[i] = seq[j] => i = j

\* C1 (as amended): the returned pair has a non-empty description and a
\* non-empty supported_os list without a repeated label; when no OS-declaration
\* comment was scanned the list is exactly ["Linux"]; when nothing was captured
\* as description, the description is "No description available" for a file
\* that decodes and "Unable to decode file for description" for one that does
\* not.
C1_ResultInvariants ==
    pc = "done" =>
        /\ result[1] # ""
        /\ result[2] # <<>>
        /\ NoDuplicates(result[2])
        /\ (~os_decl_seen => result[2] = <<"Linux">>)
        /\ (decodable /\ captured_at = 0 => result[1] = "No description available")
        /\ (~decodable => result[1] = "Unable to decode file for description")

\* C1 (as stated): as above, but for every file, undecodable ones included,
\* the description is "No description available" when nothing was captured.
C1_AsStated ==
    pc = "done" =>
        /\ result[1] # ""
        /\ result[2] # <<>>
        /\ NoDuplicates(result[2])
        /\ (~os_decl_seen => result[2] = <<"Linux">>)
        /\ (captured_at = 0 => result[1] = "No description available")

\* a file whose OS declarations repeat a label and that has no description
C1_Witness ==
    /\ pc = "done" /\ decodable /\ captured_at = 0 /\ os_decl_seen
    /\ Len(os_candidates) > Len(result[2])
    /\ result[1] = "No description available"

\* C2: once the description has been captured no later line changes it, and
\* the returned description is the captured one.
C2_FirstDescriptionWins ==
    [][description # "" =>
            /\ description' = description
            /\ (pc' = "done" => result'[1] = description)]_vars

\* two description comments and a docstring remainder: the first one is returned
C2_Witness ==
    /\ pc = "done" /\ captured_at = 1 /\ idx = 4
    /\ lines = <<"  # Sync router IP list ", "// Second note", "'''Doc start">>
    /\ result[1] = "Sync router IP list"

ClaimedOsPrefixes == {"supports:", "supported os:", "os:", "platform:", "platforms:"}

IsOsDeclaration(line) ==
    /\ IsComment(line)
    /\ \E p \in ClaimedOsPrefixes : StartsWith(Lower(CommentText(line)), p)

\* C3: in SCANNING state a comment whose lower-cased text starts with an OS
\* prefix is never captured as the description, even with no description yet and
\* with no label after the prefix; its normalized non-empty labels are appended
\* to the OS candidates and the scan goes on with the next line.
C3_OsDeclarationNotDescription ==
    [][(Scanning /\ ~in_docstring /\ IsOsDeclaration(Line)) =>
            /\ description' = description
            /\ os_candidates' = os_candidates \o OsLabels(CommentText(Line))
            /\ \A i \in 1..Len(os_candidates') : os_candidates'[i] # ""
            /\ pc' = "scan" /\ idx' = idx + 1 /\ in_docstring' = FALSE]_vars

\* "# Supports:" came first, gave no label and no description; the next comment did
C3_Witness ==
    /\ pc = "scan" /\ idx = 3 /\ Strip(lines[1]) = "# Supports:"
    /\ os_candidates = <<>> /\ os_decl_seen /\ captured_at = 2

SyncScenario ==
    <<"# Sync router IP list", "", "# Supports: Linux, OpenWrt", "set -e",
      "# Supports: Windows">>

\* C4: in SCANNING state blank, shebang and comment lines never end the scan;
\* the first line that is non-blank, no comment and no docstring opening ends it,
\* and the result is made of what was collected up to that line, so no later
\* line has an effect; the Sync scenario yields
\* ("Sync router IP list", ["Linux", "OpenWrt"]).
C4_FirstCodeLineEndsScan ==
    [][/\ (Scanning /\ ~in_docstring /\ (Line = "" \/ IsComment(Line)))
            => (pc' = "scan" /\ idx' = idx + 1)
       /\ (Scanning /\ ~in_docstring /\ Line # "" /\ ~IsComment(Line)
                /\ ~IsDocstringOpening(Line))
            => (pc' = "post" /\ description' = description
                /\ os_candidates' = os_candidates)
       /\ pc = "post"
            => /\ pc' = "done" /\ idx' = idx /\ os_candidates' = os_candidates
               /\ result'[1] = (IF description = "" THEN "No description available"
                                ELSE description)
               /\ \A i \in 1..Len(result'[2]) :
                    result'[2] = <<"Linux">> \/ \E j \in 1..Len(os_candidates) :
                                                    os_candidates[j] = result'[2][i]
               /\ \A j \in 1..Len(os_candidates) : \E i \in 1..Len(result'[2]) :
                    os_candidates[j] = result'[2][i]
       /\ (pc' = "done" /\ lines = SyncScenario)
            => result' = <<"Sync router IP list", <<"Linux", "OpenWrt">>>>]_vars

\* the Sync scenario, stopped at its code line with a declaration after it
C4_Witness ==
    /\ pc = "done" /\ lines = SyncScenario /\ stopped_at = 4 /\ idx = 4
    /\ result = <<"Sync router IP list", <<"Linux", "OpenWrt">>>>

\* the docstring-opening line also holds the closing delimiter
ClosesOnSameLine(line) ==
    IsDocstringOpening(line) /\ Contains(Remainder(line), SubSeq(line, 1, 3))

\* the content between the opening delimiter and the closing one
BetweenDelimiters(line) ==
    Strip(SubSeq(Remainder(line), 1, Find(Remainder(line), SubSeq(line, 1, 3), 1) - 1))

\* C5: for a docstring-opening line whose remainder holds the closing delimiter,
\* the description (if none was captured) is exactly the content between the
\* two delimiters, and scanning stops.
C5_OneLineDocstring ==
    [][(Scanning /\ ~in_docstring /\ ~IsComment(Line) /\ ClosesOnSameLine(Line)) =>
            /\ pc' = "post"
            /\ description' = (IF description = "" THEN BetweenDelimiters(Line)
                               ELSE description)]_vars

\* C6: in DOCSTRING state a line ending with the recorded delimiter yields the
\* content before it as description (if non-empty and none captured) and returns
\* to SCANNING; any other non-blank line keeps the scan in DOCSTRING and is
\* captured whole as description if none is captured; neither is parsed as a
\* comment, an OS declaration or a scan-ending line.
C6_DocstringState ==
    [][(Scanning /\ in_docstring /\ Line # "") =>
            /\ pc' = "scan" /\ idx' = idx + 1 /\ os_candidates' = os_candidates
            /\ IF EndsWith(Line, docstring_delimiter)
               THEN /\ in_docstring' = FALSE
                    /\ description' =
                        (IF description = "" /\ BeforeDelimiter(Line, docstring_delimiter) # ""
                         THEN BeforeDelimiter(Line, docstring_delimiter) ELSE description)
               ELSE /\ in_docstring' = TRUE
                    /\ description' = (IF description = "" THEN Line ELSE description)]_vars

----------------------------------------------------------------------------
(* detect_executor *)

\* the mapping dict of detect_executor, in its insertion order
mapping ==
    << <<"bash", "bash">>, <<"sh", "sh">>, <<"python3", "python3">>,
       <<"python", "python">>, <<"node", "node">>, <<"ruby", "ruby">>,
       <<"perl", "perl">>, <<"pwsh", "pwsh">>, <<"powershell", "powershell">> >>

\* lines 88-95: the interpreter named by the first line, "" without a shebang
ShebangInterpreter(line) ==
    IF StartsWith(line, "#!")
    THEN LET parts == SplitWS(Strip(SubSeq(line, 3, Len(line))))
         IN  IF parts = <<>> THEN ""
             ELSE IF EndsWith(parts[1], "env") /\ Len(parts) > 1 THEN parts[2]
             ELSE parts[1]
    ELSE ""

\* positions of the mapping keys that are substrings of name
MatchingKeys(name) == {i \in 1..Len(mapping) : Contains(name, mapping[i][1])}

\* lines 116-130: the executor of a lower-cased suffix
SuffixExecutor_python2(sfx) ==
    CASE sfx \in {".bash"} -> "bash"
      [] sfx \in {".sh"} -> "sh"
      [] sfx \in {".py"} -> "python"
      [] sfx \in {".rb"} -> "ruby"
      [] sfx \in {".js", ".ts"} -> "node"
      [] sfx \in {".ps1"} -> "pwsh"
      [] OTHER -> "sh"

SuffixExecutor(sfx) ==
    CASE sfx \in {".bash"} -> "bash"
      [] sfx \in {".sh"} -> "sh"
      [] sfx \in {".py"} -> "python3"
      [] sfx \in {".rb"} -> "ruby"
      [] sfx \in {".js", ".ts"} -> "node"
      [] sfx \in {".ps1"} -> "pwsh"
      [] OTHER -> "sh"

\* what detect_executor returns for an interpreter name and a suffix
ExecutorFor(name, sfx) ==
    IF name # "" /\ MatchingKeys(name) # {}
    THEN mapping[Min(MatchingKeys(name))][2]
    ELSE SuffixExecutor(Lower(sfx))

ShebangDirs == {"", "/bin/", "/usr/bin/", "/usr/share/tools/", "/opt/bash-tools/"}

InterpreterNames ==
    {"bash", "sh", "python3", "python", "node", "ruby", "perl", "pwsh", "powershell",
     "Python3", "lua", "env", "pyenv"}

EnvArguments ==
    {"bash", "sh", "python3", "python", "node", "ruby", "perl", "pwsh", "powershell",
     "Ruby", "lua", "-S node"}

FirstLines ==
    {"", "#!", "# just a comment", "echo hello", "  #! /bin/sh -e  "}
    \cup {"#!" \o d \o n : d \in ShebangDirs, n \in InterpreterNames}
    \cup {"#!" \o d \o e \o " " \o a : d \in ShebangDirs, e \in {"env", "pyenv"},
                                       a \in EnvArguments}

\* iter_scripts passes files with a suffix of SUPPORTED_SUFFIXES or with none;
\* the other suffixes are those of a direct call
Suffixes == {"", ".sh", ".bash", ".py", ".rb", ".js", ".ts", ".ps1", ".PY", ".Ps1", ".txt"}

\* extract_script_metadata is not running
MetaIdle ==
    /\ decodable = TRUE /\ lines = <<>> /\ idx = 1 /\ description = ""
    /\ os_candidates = <<>> /\ in_docstring = FALSE /\ docstring_delimiter = ""
    /\ pc = "idle" /\ result = <<>> /\ captured_at = 0 /\ os_decl_seen = FALSE
    /\ stopped_at = 0

InitExecutor ==
    /\ exec_decodable \in BOOLEAN
    /\ raw_first_line \in (IF exec_decodable THEN FirstLines ELSE {""})
    /\ suffix \in Suffixes
    /\ first_line = ""
    /\ interpreter = ""
    /\ executor = ""
    /\ epc = "open"
    /\ MetaIdle
    /\ MainIdle

\* lines 82-86
ReadFirstLine ==
    /\ epc = "open"
    /\ first_line' = IF exec_decodable THEN Strip(raw_first_line) ELSE ""
    /\ epc' = "parse"
    /\ UNCHANGED <<exec_decodable, raw_first_line, suffix, interpreter, executor>>
    /\ UNCHANGED <<metaVars, mainVars>>

\* lines 88-97
ParseShebang ==
    /\ epc = "parse"
    /\ interpreter' = Lower(ShebangInterpreter(first_line))
    /\ epc' = "map"
    /\ UNCHANGED <<exec_decodable, raw_first_line, first_line, suffix, executor>>
    /\ UNCHANGED <<metaVars, mainVars>>

\* lines 111-114
MatchMapping ==
    /\ epc = "map" /\ interpreter # "" /\ MatchingKeys(interpreter) # {}
    /\ executor' = mapping[Min(MatchingKeys(interpreter))][2]
    /\ epc' = "done"
    /\ UNCHANGED <<exec_decodable, raw_first_line, first_line, suffix, interpreter>>
    /\ UNCHANGED <<metaVars, mainVars>>

\* lines 116-130
ExtensionFallback ==
    /\ epc = "map" /\ (interpreter = "" \/ MatchingKeys(interpreter) = {})
    /\ executor' = SuffixExecutor(Lower(suffix))
    /\ epc' = "done"
    /\ UNCHANGED <<exec_decodable, raw_first_line, first_line, suffix, interpreter>>
    /\ UNCHANGED <<metaVars, mainVars>>

NextExecutor ==
    \/ ReadFirstLine
    \/ ParseShebang
    \/ MatchMapping
    \/ ExtensionFallback

SpecExecutor == InitExecutor /\ [][NextExecutor]_vars

----------------------------------------------------------------------------
(* Properties of detect_executor *)

\* the part of a path after its last "/"
Basename(path) ==
    LET slashes == {i \in 1..Len(path) : Ch(path, i) = "/"}
    IN  IF slashes = {} THEN path
        ELSE SubSeq(path, (CHOOSE m \in slashes : \A n \in slashes : n <= m) + 1, Len(path))

\* the interpreter name of a shebang line as C7 has it
ClaimedInterpreter(line) ==
    LET parts == SplitWS(Strip(SubSeq(line, 3, Len(line))))
    IN  IF parts = <<>> THEN ""
        ELSE IF Basename(parts[1]) = "env" /\ Len(parts) > 1 THEN parts[2]
        ELSE Basename(parts[1])

\* C7: for a first line starting with #!, the name matched against the mapping
\* table is the second token when the first token's basename is env and a second
\* token exists, and the first token's basename otherwise, so the returned
\* executor does not depend on the directories of the shebang path.
C7_BasenameDecides ==
    (epc = "done" /\ StartsWith(first_line, "#!")) =>
        executor = ExecutorFor(Lower(ClaimedInterpreter(first_line)), suffix)

Vocabulary ==
    {"bash", "sh", "python3", "python", "node", "ruby", "perl", "pwsh", "powershell"}

ClaimedExtensionTable(sfx) ==
    CASE sfx = ".bash" -> "bash"
      [] sfx = ".sh" -> "sh"
      [] sfx = ".py" -> "python3"
      [] sfx = ".rb" -> "ruby"
      [] sfx \in {".js", ".ts"} -> "node"
      [] sfx = ".ps1" -> "pwsh"
      [] OTHER -> "sh"

C10_EveryKeyReachable ==
    epc = "done" =>
        \A i \in 1..Len(mapping) :
            raw_first_line = "#!/usr/bin/env " \o mapping[i][1] => executor = mapping[i][2]

----------------------------------------------------------------------------
(* main: the repository tree, the generated document and the two modes *)

REPO_SLUG == "monlor/scripts"
RAW_BASE_URL == "https://raw.githubusercontent.com/" \o REPO_SLUG \o "/main"

IGNORED_DIRS == {".git", "tools", ".github", "__pycache__"}
SUPPORTED_SUFFIXES == {".sh", ".bash", ".py", ".rb", ".js", ".ts", ".ps1"}

\* the directories of the repository root and the files of a directory, in the
\* order sorted() gives them; README.md, a file of the root, is no category
RootDirs == <<".git", "net", "sys">>
FileNames == <<"a.sh", "n.txt">>

\* Path.suffix: from the last dot, unless the name starts with it
PathSuffix(name) ==
    LET dots == {i \in 2..Len(name) : Ch(name, i) = "."}
    IN  IF dots = {} THEN ""
        ELSE SubSeq(name, CHOOSE m \in dots : \A n \in dots : n <= m, Len(name))

\* what extract_script_metadata and detect_executor return for the two contents a
\* script file takes in this model
MetadataOf(content) ==
    IF content = "v1"
    THEN [description |-> "Sync router IP list", supported_os |-> <<"Linux", "OpenWrt">>,
          executor |-> "sh"]
    ELSE [description |-> "Ping | trace", supported_os |-> <<"Linux">>,
          executor |-> "bash"]

Absent == [present |-> FALSE, files |-> [f \in {"a.sh", "n.txt"} |-> "absent"]]

\* the contents a file may have in a directory: "absent", or one of two texts
FileStates(d, f) ==
    IF f = "a.sh" THEN (IF d = "net" THEN {"absent", "v1", "v2"} ELSE {"absent", "v1"})
    ELSE (IF d = "net" THEN {"absent", "v1"} ELSE {"absent"})

DirStates(d) ==
    (IF d = ".git" THEN {} ELSE {Absent}) \cup
    { [present |-> TRUE, files |-> fs] :
        fs \in {g \in [{"a.sh", "n.txt"} -> {"absent", "v1", "v2"}] :
                    \A f \in {"a.sh", "n.txt"} : g[f] \in FileStates(d, f)} }

Trees ==
    {t \in [{".git", "net", "sys"} -> UNION {DirStates(d) : d \in {".git", "net", "sys"}}] :
        \A d \in {".git", "net", "sys"} : t[d] \in DirStates(d)}

\* the entries of the root that iter_category_dirs yields
IsCategoryDir(t, d) ==
    /\ t[d].present
    /\ d \notin IGNORED_DIRS
    /\ ~StartsWith(d, ".") /\ ~StartsWith(d, "_")

\* the files of a category that iter_scripts yields
IsScript(t, d, f) ==
    /\ t[d].files[f] # "absent"
    /\ ~(PathSuffix(f) # "" /\ PathSuffix(f) \notin SUPPORTED_SUFFIXES)

RECURSIVE iter_scripts(_, _, _)
iter_scripts(t, d, names) ==
    IF names = <<>> THEN <<>>
    ELSE (IF IsScript(t, d, Head(names))
          THEN << [name |-> Head(names), path |-> d \o "/" \o Head(names)]
                  @@ MetadataOf(t[d].files[Head(names)]) >>
          ELSE <<>>) \o iter_scripts(t, d, Tail(names))

RECURSIVE CategoriesOf(_, _)
CategoriesOf(t, dirs) ==
    IF dirs = <<>> THEN <<>>
    ELSE (IF IsCategoryDir(t, Head(dirs))
          THEN << [name |-> Head(dirs), scripts |-> iter_scripts(t, Head(dirs), FileNames)] >>
          ELSE <<>>) \o CategoriesOf(t, Tail(dirs))

build_categories(t) == CategoriesOf(t, RootDirs)

RECURSIVE TotalScripts(_)
TotalScripts(categories) ==
    IF categories = <<>> THEN 0
    ELSE Len(Head(categories).scripts) + TotalScripts(Tail(categories))

\* sep.join(items)
RECURSIVE Join(_, _)
Join(items, sep) ==
    IF Len(items) = 0 THEN ""
    ELSE IF Len(items) = 1 THEN Head(items)
    ELSE Head(items) \o sep \o Join(Tail(items), sep)

\* s.replace("|", "\\|")
RECURSIVE EscapePipes(_)
EscapePipes(s) ==
    IF s = "" THEN ""
    ELSE (IF Ch(s, 1) = "|" THEN "\\|" ELSE Ch(s, 1)) \o EscapePipes(SubSeq(s, 2, Len(s)))

\* Category.anchor: lower(), spaces to dashes
RECURSIVE Dashed(_)
Dashed(s) ==
    IF s = "" THEN ""
    ELSE (IF Ch(s, 1) = " " THEN "-" ELSE Ch(s, 1)) \o Dashed(SubSeq(s, 2, Len(s)))

Anchor(category) == Dashed(Lower(category.name))

render_badges(categories) ==
    Join(<< "[![License: MIT](https://img.shields.io/badge/license-MIT-green.svg)](LICENSE)",
            "![Scripts " \o ToString(TotalScripts(categories))
                \o "](https://img.shields.io/badge/scripts-"
                \o ToString(TotalScripts(categories)) \o "-blue.svg)",
            "![Categories " \o ToString(Len(categories))
                \o "](https://img.shields.io/badge/categories-"
                \o ToString(Len(categories)) \o "-lightgrey.svg)" >>, " ")

render_toc(categories) ==
    IF categories = <<>>
    THEN "- No categories detected yet. Add subdirectories and regenerate the README."
    ELSE Join([i \in 1..Len(categories) |->
                "- [" \o categories[i].name \o " ("
                    \o ToString(Len(categories[i].scripts)) \o ")](#"
                    \o Anchor(categories[i]) \o ")"], "\n")

\* a row of the table; the back quotes around the name and the command, which a
\* TLA+ string cannot hold, are left out
ScriptRow(script) ==
    "| [" \o script.name \o "](https://github.com/" \o REPO_SLUG \o "/blob/main/"
        \o script.path \o ") | " \o EscapePipes(script.description) \o " | "
        \o Join(script.supported_os, ", ") \o " | curl -sSL " \o RAW_BASE_URL \o "/"
        \o script.path \o " | " \o script.executor \o " |"

render_category_section(category) ==
    IF category.scripts = <<>>
    THEN "## " \o category.name \o "\n"
            \o "> No scripts in this category yet. Add files and regenerate the README.\n"
    ELSE "## " \o category.name \o "\n"
            \o Join(<<"| Script | Summary | Supported OS | Remote Execution |\n| --- | --- | --- | --- |">>
                    \o [i \in 1..Len(category.scripts) |-> ScriptRow(category.scripts[i])],
                    "\n")
            \o "\n"

\* the static Maintenance and Contribution sections are the same in every document
StaticSections == "## Maintenance\n\n## Contribution\n"

build_readme(categories) ==
    LET sections == Join([i \in 1..Len(categories) |->
                            render_category_section(categories[i])], "\n")
    IN  "# monlor/scripts\n\n" \o render_badges(categories) \o "\n\n"
            \o "## Category Navigation\n" \o render_toc(categories) \o "\n\n"
            \o (IF sections = ""
                THEN "## Category Index\n> No script categories detected yet.\n"
                ELSE sections)
            \o "\n\n" \o StaticSections

\* what the user may have put in README.md by hand
ManualDocuments == {"", "# my notes\n"}

InitMain ==
    /\ tree \in Trees
    /\ readme \in {[exists |-> FALSE, text |-> ""]}
                    \cup {[exists |-> TRUE, text |-> m] : m \in ManualDocuments}
    /\ output = ""
    /\ last_op = "none"
    /\ last_write = [done |-> FALSE, text |-> ""]
    /\ tree_changed = FALSE
    /\ MetaIdle
    /\ ExecIdle

\* main without --check
RunWrite ==
    /\ readme' = [exists |-> TRUE, text |-> build_readme(build_categories(tree))]
    /\ output' = "README generated."
    /\ last_op' = "write"
    /\ last_write' = [done |-> TRUE, text |-> readme'.text]
    /\ tree_changed' = FALSE
    /\ UNCHANGED tree
    /\ UNCHANGED <<metaVars, execVars>>

RunCheck_rewrite ==
    /\ readme' = [exists |-> TRUE, text |-> build_readme(build_categories(tree))]
    /\ output' = "README is up to date."
    /\ last_op' = "check"
    /\ UNCHANGED <<tree, last_write, tree_changed>>
    /\ UNCHANGED <<metaVars, execVars>>

\* main with --check
RunCheck ==
    /\ LET content == build_readme(build_categories(tree))
           current == IF readme.exists THEN readme.text ELSE ""
       IN  output' = IF current = content THEN "README is up to date."
                     ELSE "README needs regeneration. Run without --check to update it."
    /\ last_op' = "check"
    /\ UNCHANGED <<tree, readme, last_write, tree_changed>>
    /\ UNCHANGED <<metaVars, execVars>>

\* between two runs the user adds, removes or edits scripts and directories
ChangeTree ==
    /\ \E d \in {".git", "net", "sys"} : \E st \in DirStates(d) \ {tree[d]} :
            tree' = [tree EXCEPT ![d] = st]
    /\ last_op' = "tree"
    /\ tree_changed' = TRUE
    /\ UNCHANGED <<readme, output, last_write>>
    /\ UNCHANGED <<metaVars, execVars>>

\* between two runs the user edits or deletes README.md
EditReadme ==
    /\ \E r \in {[exists |-> FALSE, text |-> ""]}
                    \cup {[exists |-> TRUE, text |-> m] : m \in ManualDocuments} :
            r # readme /\ readme' = r
    /\ last_op' = "readme"
    /\ UNCHANGED <<tree, output, last_write, tree_changed>>
    /\ UNCHANGED <<metaVars, execVars>>

NextMain ==
    \/ RunWrite
    \/ RunCheck
    \/ ChangeTree
    \/ EditReadme

SpecMain == InitMain /\ [][NextMain]_vars

----------------------------------------------------------------------------
(* Properties of main *)

====
